---- MODULE Spec2Model ----
(***************************************************************************)
(* Model of the VWAP multi-timeframe strategy (src/src/vwap_strategy.py):  *)
(* the strategy object's fields, its bar and position-event callbacks, and *)
(* the collaborators it talks to (the two VWAP indicators, the portfolio's *)
(* net position, the account balance and the orders in flight).            *)
(*                                                                         *)
(* Prices and volumes are integers (ticks).  Each callback is one action:  *)
(* the framework runs callbacks one at a time, and an order submitted by a *)
(* callback is filled (or rejected) by the venue in a later step.          *)
(***************************************************************************)
EXTENDS Integers, Sequences, FiniteSets, TLC

VARIABLES
    self,         \* the strategy object's fields (__init__, lines 70-92)
    vwap_15min,   \* fast indicator: [initialized, value]
    vwap_4h,      \* slow indicator: [initialized, value]
    net_position, \* portfolio.net_position(instrument): signed quantity
    venue_pos_id, \* identifier of the position open at the venue, NoId if none
    next_pos_id,  \* next identifier the venue hands out
    inflight,     \* orders submitted and not yet filled or rejected
    pending,      \* position events of the last fill, not yet handed to the strategy
    step,         \* the callback that ran last: its inputs, what it saw, what it emitted
    hist          \* what has happened so far: entry order intents since the last
                  \* close / last reset, fast bars that found both indicators
                  \* ready, whether an entry was given up for want of a balance,
                  \* the identifier of the last position-opened event since the
                  \* last reset, all entry order intents so far, whether the
                  \* venue's open position was opened by an entry order

vars == <<self, vwap_15min, vwap_4h, net_position, venue_pos_id, next_pos_id,
          inflight, pending, step, hist>>

----------------------------------------------------------------------------
\* Bounds of the exploration.
MaxBars == 4
MaxSlowBars == 1

\* Configuration (VWAPStrategyConfig).  The model runs the strategy with short
\* periods; the defaults of the source are 100 bars, 2.0, 1.5, 0.02 and 168 h.
vwap_period_15min == 4
std_dev_multiplier == 2
entry_volume_threshold_num == 3
entry_volume_threshold_den == 2
risk_per_trade_pct == 2
time_exit_hours == 1

\* deque(maxlen=20)
VolumesMaxLen == 20

\* Instrument metadata: minimum lot, in quantity units.
min_quantity == 1

NoTime == -1
NoId == 0
NoBalance == -1
NoSide == "None"
BUY == "BUY"
SELL == "SELL"

----------------------------------------------------------------------------
\* Inputs.

Bar(h, l, c, v, t) == [high |-> h, low |-> l, close |-> c, volume |-> v, ts_event |-> t]

\* <<high, low, close, volume>> of the fast bars fed to the strategy: a quiet
\* flat bar, a traded flat bar and a traded wide bar closing at its high.
FastBars == { <<10, 10, 10, 0>>, <<10, 10, 10, 2>>, <<30, 15, 30, 2>> }
\* Values the fast / slow indicator may report after an update.
FastVwapValues == {10, 30}
SlowVwapValues == {20}
\* balance_total() of the account, or NoBalance when the query raises.
Balances == {NoBalance, 60000}
\* realized_pnl of a close event.
Pnls == {-1, 0, 1}
\* Hours between two consecutive fast bars.
BarGaps == {1}

----------------------------------------------------------------------------
\* Arithmetic helpers.

Abs(x) == IF x < 0 THEN -x ELSE x

RECURSIVE SumSeq(_)
SumSeq(s) == IF s = <<>> THEN 0 ELSE Head(s) + SumSeq(Tail(s))

RECURSIVE SumSq(_)
SumSq(s) == IF s = <<>> THEN 0 ELSE Head(s) * Head(s) + SumSq(Tail(s))

\* Largest r with r*r <= n.
ISqrt(n) == CHOOSE r \in 0..n : r * r <= n /\ (r + 1) * (r + 1) > n

LastN(s, n) == SubSeq(s, Len(s) - n + 1, Len(s))


\* make_qty at the model's quantity precision: nearest integer of a / b (b > 0).
RoundDiv(a, b) == (2 * a + b) \div (2 * b)

----------------------------------------------------------------------------
\* The strategy object after __init__.

InitSelf ==
    [ bars_15min |-> <<>>,
      bars_4h |-> <<>>,
      volumes_15min |-> <<>>,
      last_15min_price |-> 0,
      last_15min_vwap |-> 0,
      upper_band_15min |-> 0,
      lower_band_15min |-> 0,
      in_position |-> FALSE,
      position_side |-> NoSide,
      entry_time |-> NoTime,
      current_position_id |-> NoId,
      trades_total |-> 0,
      trades_won |-> 0,
      trades_lost |-> 0 ]

\* VolumeWeightedAveragePrice() before its first update.
InitIndicator == [initialized |-> FALSE, value |-> 0]

\* What a callback emits: order intents, and the defensive reset of _exit_position.
OrderEvent(kind, side, qty, ro, cause) ==
    [kind |-> kind, side |-> side, quantity |-> qty, reduce_only |-> ro, cause |-> cause]

ResetEvent == OrderEvent("reset", NoSide, 0, FALSE, "no_position")

\* A callback in progress: the object's fields, what it has emitted so far, the
\* side _enter_position was called with (NoSide if it was not called), and
\* whether an exception has ended it.
Ctx(st, out, attempt, raised) ==
    [st |-> st, out |-> out, attempt |-> attempt, raised |-> raised]

----------------------------------------------------------------------------
\* _process_15min_bar, lines 171-194: the band computation.

TypicalPrice(b) == (b.high + b.low + b.close) \div 3

\* Faulty variant: the sample standard deviation (ddof = 1).
StdDev_Sample(prices) ==
    LET n == Len(prices)
        d == n * SumSq(prices) - SumSeq(prices) * SumSeq(prices)
    IN  IF n < 2 THEN 0 ELSE ISqrt(d \div (n * (n - 1)))

\* np.std(prices): the population standard deviation (ddof = 0), in ticks,
\* rounded down.  N^2 * variance = N * sum(x^2) - (sum x)^2.
StdDev(prices) ==
    LET n == Len(prices)
    IN  ISqrt(n * SumSq(prices) - SumSeq(prices) * SumSeq(prices)) \div n

RECURSIVE TypicalPrices(_)
TypicalPrices(bars) ==
    IF bars = <<>> THEN <<>>
    ELSE <<TypicalPrice(Head(bars))>> \o TypicalPrices(Tail(bars))

BandsComputed(st) == Len(st.bars_15min) >= vwap_period_15min

\* Faulty variant: the two bands are swapped.
UpdateBands_Swapped(st, current_15min_vwap) ==
    IF BandsComputed(st)
    THEN LET recent_bars == LastN(st.bars_15min, vwap_period_15min)
             std_dev == StdDev(TypicalPrices(recent_bars))
         IN  [st EXCEPT !.upper_band_15min = current_15min_vwap - std_dev * std_dev_multiplier,
                        !.lower_band_15min = current_15min_vwap + std_dev * std_dev_multiplier]
    ELSE st

UpdateBands(st, current_15min_vwap) ==
    IF BandsComputed(st)
    THEN LET recent_bars == LastN(st.bars_15min, vwap_period_15min)
             std_dev == StdDev(TypicalPrices(recent_bars))
         IN  [st EXCEPT !.upper_band_15min = current_15min_vwap + std_dev * std_dev_multiplier,
                        !.lower_band_15min = current_15min_vwap - std_dev * std_dev_multiplier]
    ELSE st

\* lines 206-217 and 293: volume_ratio >= entry_volume_threshold, with
\* volume_ratio = current_volume / avg_volume, and 0 when avg_volume is 0.
\* volumes is volumes_15min as line 208 reads it (the current bar's volume
\* was appended at line 154).
\* Faulty variant: an average of zero is not singled out.
VolumeCheck_NoZeroGuard(volumes, current_volume) ==
    /\ volumes # <<>>
    /\ current_volume * Len(volumes) * entry_volume_threshold_den
         >= entry_volume_threshold_num * SumSeq(volumes)

VolumeCheck(volumes, current_volume) ==
    /\ volumes # <<>>
    /\ SumSeq(volumes) # 0
    /\ current_volume * Len(volumes) * entry_volume_threshold_den
         >= entry_volume_threshold_num * SumSeq(volumes)

\* Faulty variant: the limit is compared in seconds against an elapsed time in hours.
TimeExitDue_Seconds(elapsed) == elapsed > time_exit_hours * 3600

\* line 231: elapsed_time.total_seconds() > time_exit_hours * 3600, in hours.
TimeExitDue(elapsed) == elapsed > time_exit_hours

----------------------------------------------------------------------------
\* _enter_position, lines 328-397.

\* Faulty variant: the entry does not mark the strategy as in a position.
EnterTracking_NoFlag(st, side, ts) ==
    [st EXCEPT !.position_side = side,
               !.entry_time = ts,
               !.trades_total = @ + 1]

\* Faulty variant: the entry records an identifier of its own.
EnterTracking_SetsId(st, side, ts) ==
    [st EXCEPT !.in_position = TRUE,
               !.position_side = side,
               !.entry_time = ts,
               !.trades_total = @ + 1,
               !.current_position_id = 99]

\* Faulty variant: the entry does not count the trade.
EnterTracking_NoCount(st, side, ts) ==
    [st EXCEPT !.in_position = TRUE,
               !.position_side = side,
               !.entry_time = ts]

\* lines 393-397
EnterTracking(st, side, ts) ==
    [st EXCEPT !.in_position = TRUE,
               !.position_side = side,
               !.entry_time = ts,
               !.trades_total = @ + 1]

\* Faulty variant: a missing balance is not noticed.
BalanceUnavailable_Never(account_balance) == FALSE

\* lines 343-347: get_account_balance returned None
BalanceUnavailable(account_balance) == account_balance = NoBalance

\* lines 351-355: the stop is the band on the losing side of the entry
StopPrice(st, side) ==
    IF side = BUY THEN st.lower_band_15min ELSE st.upper_band_15min

\* line 358, with the risk fraction in percent
RiskAmount(account_balance, pct) == (account_balance * pct) \div 100

\* line 361
PriceDistance(st, side, current_price) == Abs(current_price - StopPrice(st, side))

\* Faulty variant: a distance of zero is let through.
InvalidDistance_Negative(price_distance) == price_distance < 0

\* line 362
InvalidDistance(price_distance) == price_distance <= 0

\* Faulty variant: the quantity is not raised to the minimum lot.
PositionQty_NoMinimum(risk_amount, price_distance) == RoundDiv(risk_amount, price_distance)

\* lines 366-375: risk_amount / price_distance, as a quantity, raised to min_quantity.
PositionQty(risk_amount, price_distance) ==
    LET position_qty == RoundDiv(risk_amount, price_distance)
    IN  IF position_qty < min_quantity THEN min_quantity ELSE position_qty

\* line 381: instrument.calculate_base_quantity(position_qty, bar.close), the
\* quantity divided by the price, at the model's quantity precision.
BaseQuantity(position_qty, last_px) == RoundDiv(position_qty, last_px)

\* line 383
EntryReduceOnly == FALSE

EnterPosition(c, side, bar, account_balance) ==
    LET st == c.st
        called == [c EXCEPT !.attempt = side]
        current_price == bar.close
        risk_amount == RiskAmount(account_balance, risk_per_trade_pct)
        price_distance == PriceDistance(st, side, current_price)
        quantity == BaseQuantity(PositionQty(risk_amount, price_distance), current_price)
    IN  IF st.in_position THEN called
        ELSE IF BalanceUnavailable(account_balance) THEN called
        ELSE IF InvalidDistance(price_distance) THEN called
        \* np.divide by 0.0 is inf, which make_qty rejects
        ELSE IF price_distance = 0 THEN [called EXCEPT !.raised = TRUE]
        \* a market order of quantity zero is rejected by the order factory
        ELSE IF quantity <= 0 THEN [called EXCEPT !.raised = TRUE]
        ELSE [called EXCEPT
                !.out = Append(@, OrderEvent("entry", side, quantity, EntryReduceOnly, "signal")),
                !.st = EnterTracking(st, side, bar.ts_event)]

----------------------------------------------------------------------------
\* _exit_position, lines 399-439.

\* Faulty variant: the reset forgets the entry time.
ResetTracking_KeepEntryTime(st) ==
    [st EXCEPT !.in_position = FALSE,
               !.position_side = NoSide,
               !.current_position_id = NoId]

\* Faulty variant: the reset forgets the side.
ResetTracking_KeepSide(st) ==
    [st EXCEPT !.in_position = FALSE,
               !.entry_time = NoTime,
               !.current_position_id = NoId]

\* lines 417-420 and 487-490
ResetTracking(st) ==
    [st EXCEPT !.in_position = FALSE,
               !.position_side = NoSide,
               !.entry_time = NoTime,
               !.current_position_id = NoId]

\* line 430
ExitReduceOnly == FALSE

\* Faulty variant: the tracking fields are reset as soon as the exit order is submitted.
ExitSubmit_Reset(st) ==
    [st EXCEPT !.in_position = FALSE,
               !.position_side = NoSide,
               !.entry_time = NoTime,
               !.current_position_id = NoId]

\* lines 422-439: the exit order is submitted, the tracking fields are left alone.
ExitSubmit(st) == st

\* Faulty variant: a net position of zero is not noticed.
NoVenuePosition_Never(net) == FALSE

\* line 414: portfolio.net_position(...) == Decimal("0")
NoVenuePosition(net) == net = 0

\* lines 408-410
ExitSide(position_side) == IF position_side = BUY THEN SELL ELSE BUY

\* Faulty variant: the exit is sized by the lot the strategy trades, not by
\* the venue's net position.
ExitQuantity_MinimumLot(exit_side, net) == min_quantity

\* lines 413 and 422-423: the net position, negated for a buying exit
ExitQuantity(exit_side, net) == IF exit_side = BUY THEN -net ELSE net

ExitPosition(c, net, cause) ==
    LET st == c.st
        exit_side == ExitSide(st.position_side)
        position == ExitQuantity(exit_side, net)
    IN  IF ~st.in_position \/ st.position_side = NoSide THEN c
        ELSE IF NoVenuePosition(net)
             THEN [c EXCEPT !.st = ResetTracking(st), !.out = Append(@, ResetEvent)]
        \* make_qty of a negative value raises
        ELSE IF position < 0 THEN [c EXCEPT !.raised = TRUE]
        ELSE [c EXCEPT
                !.out = Append(@, OrderEvent("exit", exit_side, position, ExitReduceOnly, cause)),
                !.st = ExitSubmit(st)]

----------------------------------------------------------------------------
\* _process_15min_bar, lines 148-312.

\* Faulty variant: the history is not capped.
DequeAppend_Unbounded(q, x) == Append(q, x)

\* deque(maxlen=20).append
DequeAppend(q, x) ==
    IF Len(q) >= VolumesMaxLen THEN Append(Tail(q), x) ELSE Append(q, x)

\* Faulty variant: last_15min_price is left holding the previous bar's close.
StoreBar_KeepLastPrice(st, bar) ==
    [st EXCEPT !.bars_15min = Append(@, bar),
               !.volumes_15min = DequeAppend(@, bar.volume)]

\* lines 152-158
StoreBar(st, bar) ==
    [st EXCEPT !.bars_15min = Append(@, bar),
               !.volumes_15min = DequeAppend(@, bar.volume),
               !.last_15min_price = bar.close]

\* Faulty variant: the slow indicator's readiness is not checked.
IndicatorsReady_FastOnly(v15, v4h) == v15.initialized

\* line 161
IndicatorsReady(v15, v4h) == v15.initialized /\ v4h.initialized

\* lines 226-236: the time-based exit
TimeExit(c, bar, net) ==
    IF /\ c.st.in_position
       /\ c.st.entry_time # NoTime
       /\ TimeExitDue(bar.ts_event - c.st.entry_time)
    THEN ExitPosition(c, net, "time")
    ELSE c

\* line 243 and line 260
LongTakeProfit(current_price, upper_band) == current_price >= upper_band
ShortTakeProfit(current_price, lower_band) == current_price <= lower_band

\* Faulty variant: a LONG position is stopped out at the VWAP itself.
LongStopLoss_Inclusive(current_price, current_15min_vwap) ==
    current_price <= current_15min_vwap

\* line 250 and line 267
LongStopLoss(current_price, current_15min_vwap) == current_price < current_15min_vwap
ShortStopLoss(current_price, current_15min_vwap) == current_price > current_15min_vwap

\* lines 238-272: take-profit and stop-loss of the recorded side
PriceExit(c, current_price, current_15min_vwap, net) ==
    LET st == c.st
    IN  IF st.position_side = BUY
        THEN IF LongTakeProfit(current_price, st.upper_band_15min)
             THEN ExitPosition(c, net, "take_profit")
             ELSE IF LongStopLoss(current_price, current_15min_vwap)
                  THEN ExitPosition(c, net, "stop_loss")
                  ELSE c
        ELSE IF st.position_side = SELL
        THEN IF ShortTakeProfit(current_price, st.lower_band_15min)
             THEN ExitPosition(c, net, "take_profit")
             ELSE IF ShortStopLoss(current_price, current_15min_vwap)
                  THEN ExitPosition(c, net, "stop_loss")
                  ELSE c
        ELSE c

\* Faulty variant: a close equal to the slow VWAP counts as an uptrend.
Uptrend4h_Inclusive(current_price, current_4h_vwap) == current_price >= current_4h_vwap

\* lines 277-278
Uptrend4h(current_price, current_4h_vwap) == current_price > current_4h_vwap
Downtrend4h(current_price, current_4h_vwap) == current_price < current_4h_vwap

\* lines 281-290; last_15min_price was set to the bar's close at line 158
CrossAbove(st, current_15min_vwap) ==
    /\ st.last_15min_price > current_15min_vwap
    /\ st.last_15min_price <= st.last_15min_vwap
CrossBelow(st, current_15min_vwap) ==
    /\ st.last_15min_price < current_15min_vwap
    /\ st.last_15min_price >= st.last_15min_vwap

\* lines 274-309: the entry signals
EntrySignal(c, bar, current_15min_vwap, current_4h_vwap, account_balance) ==
    LET st == c.st
        current_price == bar.close
        uptrend_4h == Uptrend4h(current_price, current_4h_vwap)
        downtrend_4h == Downtrend4h(current_price, current_4h_vwap)
        cross_above == CrossAbove(st, current_15min_vwap)
        cross_below == CrossBelow(st, current_15min_vwap)
        volume_check == VolumeCheck(st.volumes_15min, bar.volume)
    IN  IF uptrend_4h /\ cross_above /\ volume_check
        THEN EnterPosition(c, BUY, bar, account_balance)
        ELSE IF downtrend_4h /\ cross_below /\ volume_check
             THEN EnterPosition(c, SELL, bar, account_balance)
             ELSE c

\* lines 204-309: the body under "if last_15min_vwap != 0"
Evaluate(c, bar, current_15min_vwap, current_4h_vwap, net, account_balance) ==
    LET c1 == TimeExit(c, bar, net)
    IN  IF c1.raised THEN c1
        ELSE IF c1.st.in_position
             THEN PriceExit(c1, bar.close, current_15min_vwap, net)
             ELSE EntrySignal(c1, bar, current_15min_vwap, current_4h_vwap, account_balance)

\* Faulty variant: the signals are evaluated without a stored VWAP.
HasPreviousVwap_Always(st) == TRUE

\* line 205
HasPreviousVwap(st) == st.last_15min_vwap # 0

Process15minBar(st, bar, v15, v4h, net, account_balance) ==
    LET s1 == StoreBar(st, bar)
        c0 == Ctx(UpdateBands(s1, v15.value), <<>>, NoSide, FALSE)
        c1 == IF HasPreviousVwap(c0.st)
              THEN Evaluate(c0, bar, v15.value, v4h.value, net, account_balance)
              ELSE c0
    IN  IF ~IndicatorsReady(v15, v4h) THEN Ctx(s1, <<>>, NoSide, FALSE)
        ELSE IF c1.raised THEN c1
        \* line 312
        ELSE [c1 EXCEPT !.st.last_15min_vwap = v15.value]

\* _process_4h_bar, lines 314-326
Process4hBar(st, bar) == [st EXCEPT !.bars_4h = Append(@, bar)]

\* The bar types of lines 58-65.
bar_type_1min == "1-MINUTE"
bar_type_15min == "15-MINUTE"
bar_type_4h == "4-HOUR"

\* Faulty variant: every bar that is not a slow bar is processed as a fast bar.
OnBar_FastUnlessSlow(st, bar_type, bar, v15, v4h, net, account_balance) ==
    IF bar_type = bar_type_4h
    THEN Ctx(Process4hBar(st, bar), <<>>, NoSide, FALSE)
    ELSE Process15minBar(st, bar, v15, v4h, net, account_balance)

\* on_bar, lines 133-146: a bar of any other type falls through both tests.
OnBar(st, bar_type, bar, v15, v4h, net, account_balance) ==
    IF bar_type = bar_type_15min
    THEN Process15minBar(st, bar, v15, v4h, net, account_balance)
    ELSE IF bar_type = bar_type_4h
    THEN Ctx(Process4hBar(st, bar), <<>>, NoSide, FALSE)
    ELSE Ctx(st, <<>>, NoSide, FALSE)

----------------------------------------------------------------------------
\* on_position_opened, lines 441-454, and on_position_closed, lines 456-502.

ThisInstrument == "THIS"
OtherInstrument == "OTHER"

PositionOpened(inst, id) ==
    [type |-> "opened", instrument_id |-> inst, position_id |-> id, realized_pnl |-> 0]
PositionClosed(inst, id, pnl) ==
    [type |-> "closed", instrument_id |-> inst, position_id |-> id, realized_pnl |-> pnl]

\* Faulty variant: the opened event also marks the strategy as in a position.
OnPositionOpened_MarksOpen(c, event) ==
    IF event.instrument_id # ThisInstrument THEN c
    ELSE [c EXCEPT !.st.current_position_id = event.position_id,
                   !.st.in_position = TRUE]

OnPositionOpened(c, event) ==
    IF event.instrument_id # ThisInstrument THEN c
    ELSE [c EXCEPT !.st.current_position_id = event.position_id]

\* Faulty variant: a realized P&L of zero is not a win.
IsWin_Strict(realized_pnl) == realized_pnl > 0

\* line 473
IsWin(realized_pnl) == realized_pnl >= 0

\* Faulty variant: the close counts the trade in the total as well.
CountTrade_AlsoTotal(st, realized_pnl) ==
    IF realized_pnl >= 0
    THEN [st EXCEPT !.trades_won = @ + 1, !.trades_total = @ + 1]
    ELSE [st EXCEPT !.trades_lost = @ + 1, !.trades_total = @ + 1]

\* lines 472-484
CountTrade(st, realized_pnl) ==
    IF IsWin(realized_pnl)
    THEN [st EXCEPT !.trades_won = @ + 1]
    ELSE [st EXCEPT !.trades_lost = @ + 1]

\* Faulty variant: any close of the instrument is taken for the recorded position.
IsCurrentPosition_Any(st, event) == event.position_id # NoId

\* line 471
IsCurrentPosition(st, event) == st.current_position_id = event.position_id

OnPositionClosed(c, event) ==
    IF event.instrument_id # ThisInstrument THEN c
    ELSE IF IsCurrentPosition(c.st, event)
         THEN [c EXCEPT
                 !.st = ResetTracking(CountTrade(c.st, event.realized_pnl)),
                 !.out = Append(@, OrderEvent("close_confirmed", NoSide, 0, FALSE, "event"))]
         ELSE c

----------------------------------------------------------------------------
\* The collaborators.

\* An indicator registered for a bar type is updated by the framework before
\* on_bar runs (register_indicator_for_bars, lines 130-131).  After the update
\* it reports one of `values`; one that has not started may still not be ready.
IndicatorUpdates(ind, values) ==
    {[initialized |-> TRUE, value |-> w] : w \in values}
        \cup (IF ind.initialized THEN {} ELSE {ind})

\* submit_order: the order intents of a callback join the orders in flight.
IsOrder(e) == e.kind \in {"entry", "exit"}
Submitted(out) == SelectSeq(out, IsOrder)

\* The signed quantity the venue fills for order o against net position net:
\* a reduce-only order is filled at most up to the open position and never on
\* the position's own side.
FillDelta(o, net) ==
    LET signed == IF o.side = BUY THEN o.quantity ELSE -o.quantity
    IN  IF ~o.reduce_only THEN signed
        ELSE IF net > 0 /\ signed < 0 THEN (IF -signed > net THEN -net ELSE signed)
        ELSE IF net < 0 /\ signed > 0 THEN (IF signed > -net THEN -net ELSE signed)
        ELSE 0

\* The position events of a fill that moves the net position from net to new.
FillEvents(net, new, pid, fresh, pnl) ==
    IF net = 0 /\ new # 0 THEN <<PositionOpened(ThisInstrument, fresh)>>
    ELSE IF net # 0 /\ new = 0 THEN <<PositionClosed(ThisInstrument, pid, pnl)>>
    ELSE IF (net > 0 /\ new < 0) \/ (net < 0 /\ new > 0)
         THEN <<PositionClosed(ThisInstrument, pid, pnl), PositionOpened(ThisInstrument, fresh)>>
         ELSE <<>>

----------------------------------------------------------------------------
\* What the last callback saw and did.

Tracking(st) ==
    [ in_position |-> st.in_position,
      position_side |-> st.position_side,
      entry_time |-> st.entry_time,
      current_position_id |-> st.current_position_id,
      trades_total |-> st.trades_total,
      trades_won |-> st.trades_won,
      trades_lost |-> st.trades_lost,
      last_15min_vwap |-> st.last_15min_vwap,
      upper_band_15min |-> st.upper_band_15min,
      lower_band_15min |-> st.lower_band_15min ]

NoBar == [high |-> 0, low |-> 0, close |-> 0, volume |-> 0, ts_event |-> 0]
NoEvent == [type |-> "none", instrument_id |-> "none", position_id |-> NoId, realized_pnl |-> 0]

Step(op, bar, event, balance, c) ==
    [ op |-> op, bar |-> bar, event |-> event, pre |-> Tracking(self),
      net |-> net_position, balance |-> balance, out |-> c.out,
      attempt |-> c.attempt, raised |-> c.raised ]

Idle(st) == Ctx(st, <<>>, NoSide, FALSE)

RECURSIVE Count(_, _)
Count(h, out) ==
    IF out = <<>> THEN h
    ELSE LET e == Head(out)
             h1 == IF e.kind = "entry"
                   THEN [h EXCEPT !.since_close = @ + 1, !.since_flat = @ + 1,
                                  !.entries = @ + 1]
                   ELSE IF e.kind = "reset"
                   THEN [h EXCEPT !.since_flat = 0, !.last_opened = NoId]
                   ELSE IF e.kind = "close_confirmed"
                   THEN [h EXCEPT !.since_close = 0, !.since_flat = 0, !.last_opened = NoId]
                   ELSE h
         IN  Count(h1, Tail(out))

\* What a fast bar adds to the history: whether it found both indicators
\* ready, and whether its entry was given up for want of a balance.
Noted(h, c, ready, balance) ==
    [h EXCEPT !.ready_bars = IF ready THEN @ + 1 ELSE @,
              !.skipped = @ \/ (c.attempt # NoSide /\ BalanceUnavailable(balance))]

\* What a position-opened event adds to the history: the identifier it
\* carries, when it is for this instrument.
Opened(h, event) ==
    IF event.instrument_id = ThisInstrument
    THEN [h EXCEPT !.last_opened = event.position_id]
    ELSE h

Now == IF self.bars_15min = <<>> THEN 0
       ELSE self.bars_15min[Len(self.bars_15min)].ts_event

----------------------------------------------------------------------------
Init ==
    /\ self = InitSelf
    /\ vwap_15min = InitIndicator
    /\ vwap_4h = InitIndicator
    /\ net_position = 0
    /\ venue_pos_id = NoId
    /\ next_pos_id = 1
    /\ inflight = <<>>
    /\ pending = <<>>
    /\ step = [ op |-> "init", bar |-> NoBar, event |-> NoEvent, pre |-> Tracking(InitSelf),
                net |-> 0, balance |-> NoBalance, out |-> <<>>, attempt |-> NoSide,
                raised |-> FALSE ]
    /\ hist = [since_close |-> 0, since_flat |-> 0, ready_bars |-> 0, skipped |-> FALSE,
               last_opened |-> NoId, entries |-> 0, opened_by_entry |-> FALSE]

\* Callbacks run one at a time; the position events of a fill are handed to
\* the strategy before anything else happens; an exception ends the run.
Running == ~step.raised /\ pending = <<>>

\* on_bar with a bar of bar_type_15min
FastBar ==
    /\ Running
    /\ Len(self.bars_15min) < MaxBars
    /\ \E shape \in FastBars, gap \in BarGaps,
          ind \in IndicatorUpdates(vwap_15min, FastVwapValues), bal \in Balances :
          LET bar == Bar(shape[1], shape[2], shape[3], shape[4], Now + gap)
          IN  \E c \in {Process15minBar(self, bar, ind, vwap_4h, net_position, bal)} :
              /\ self' = c.st
              /\ vwap_15min' = ind
              /\ inflight' = inflight \o Submitted(c.out)
              /\ step' = Step("fast_bar", bar, NoEvent,
                              IF c.attempt = NoSide THEN NoBalance ELSE bal, c)
              /\ hist' = Noted(Count(hist, c.out), c, IndicatorsReady(ind, vwap_4h), bal)
    /\ UNCHANGED <<vwap_4h, net_position, venue_pos_id, next_pos_id, pending>>

\* on_bar with a bar of bar_type_4h
SlowBar ==
    /\ Running
    /\ Len(self.bars_4h) < MaxSlowBars
    /\ \E ind \in IndicatorUpdates(vwap_4h, SlowVwapValues) :
          LET bar == Bar(20, 20, 20, 2, Now)
          IN  /\ self' = Process4hBar(self, bar)
              /\ vwap_4h' = ind
              /\ step' = Step("slow_bar", bar, NoEvent, NoBalance, Idle(self))
    /\ UNCHANGED <<vwap_15min, net_position, venue_pos_id, next_pos_id, inflight,
                   pending, hist>>

\* The venue fills the oldest order in flight: the portfolio's net position
\* moves and the position events of the fill are queued for the strategy.
Fill ==
    /\ Running
    /\ inflight # <<>>
    /\ \E pnl \in Pnls :
          LET o == Head(inflight)
              new == net_position + FillDelta(o, net_position)
              events == FillEvents(net_position, new, venue_pos_id, next_pos_id, pnl)
              opened == \E i \in 1..Len(events) : events[i].type = "opened"
          IN  /\ net_position' = new
              /\ venue_pos_id' = IF opened THEN next_pos_id
                                 ELSE IF new = 0 THEN NoId ELSE venue_pos_id
              /\ next_pos_id' = IF opened THEN next_pos_id + 1 ELSE next_pos_id
              /\ pending' = events
              /\ hist' = [hist EXCEPT !.opened_by_entry =
                            IF opened THEN o.kind = "entry"
                            ELSE IF new = 0 THEN FALSE ELSE @]
    /\ inflight' = Tail(inflight)
    /\ step' = Step("fill", NoBar, NoEvent, NoBalance, Idle(self))
    /\ UNCHANGED <<self, vwap_15min, vwap_4h>>

\* The venue rejects the oldest order in flight; no position event follows.
Reject ==
    /\ Running
    /\ inflight # <<>>
    /\ inflight' = Tail(inflight)
    /\ step' = Step("reject", NoBar, NoEvent, NoBalance, Idle(self))
    /\ UNCHANGED <<self, vwap_15min, vwap_4h, net_position, venue_pos_id, next_pos_id,
                   pending, hist>>

\* on_position_opened with the next queued event
PositionOpenedEvent ==
    /\ pending # <<>>
    /\ Head(pending).type = "opened"
    /\ \E c \in {OnPositionOpened(Idle(self), Head(pending))} :
          /\ self' = c.st
          /\ step' = Step("position_opened", NoBar, Head(pending), NoBalance, c)
          /\ hist' = Opened(Count(hist, c.out), Head(pending))
    /\ pending' = Tail(pending)
    /\ UNCHANGED <<vwap_15min, vwap_4h, net_position, venue_pos_id, next_pos_id, inflight>>

\* on_position_closed with the next queued event
PositionClosedEvent ==
    /\ pending # <<>>
    /\ Head(pending).type = "closed"
    /\ \E c \in {OnPositionClosed(Idle(self), Head(pending))} :
          /\ self' = c.st
          /\ step' = Step("position_closed", NoBar, Head(pending), NoBalance, c)
          /\ hist' = Count(hist, c.out)
    /\ pending' = Tail(pending)
    /\ UNCHANGED <<vwap_15min, vwap_4h, net_position, venue_pos_id, next_pos_id, inflight>>

Next == FastBar \/ SlowBar \/ Fill \/ Reject \/ PositionOpenedEvent \/ PositionClosedEvent

Spec == Init /\ [][Next]_vars

\* on_bar with a bar of bar_type_1min, which on_start subscribes to (line
\* 103); no indicator is registered for it (lines 130-131).
OtherBar ==
    /\ Running
    /\ \E bal \in Balances :
          LET bar == Bar(20, 10, 20, 2, Now)
          IN  \E c \in {OnBar(self, bar_type_1min, bar, vwap_15min, vwap_4h,
                              net_position, bal)} :
              /\ self' = c.st
              /\ inflight' = inflight \o Submitted(c.out)
              /\ step' = Step("other_bar", bar, NoEvent, NoBalance, c)
              /\ hist' = Count(hist, c.out)
    /\ UNCHANGED <<vwap_15min, vwap_4h, net_position, venue_pos_id, next_pos_id, pending>>

\* The running strategy with the 1-minute bars delivered as well.
NextAllBars == Next \/ OtherBar

SpecAllBars == Init /\ [][NextAllBars]_vars

----------------------------------------------------------------------------
\* The strategy's private methods, called on their own.  A second
\* specification calls one method at a time on an object and arguments drawn
\* from small sets, and records the call and what it returned in step.

CallCloses == {10, 20, 1010}
\* Band values an object may hold: 0.0 (not computed yet) or a price.
CallBands == {0, 10, 20, 1010}
CallBalances == {NoBalance, 1000, 60000}
\* Risk fractions, in percent, the sizing is evaluated with.
CallRiskPcts == {risk_per_trade_pct, 10}

\* An object holding the given bands, FLAT or (ip) in a LONG position.
SelfWithBands(lower, upper, ip) ==
    IF ip
    THEN [InitSelf EXCEPT !.lower_band_15min = lower, !.upper_band_15min = upper,
                          !.in_position = TRUE, !.position_side = BUY,
                          !.entry_time = 0, !.trades_total = 1]
    ELSE [InitSelf EXCEPT !.lower_band_15min = lower, !.upper_band_15min = upper]

\* Each run makes one call.
NoCallYet == step.op = "init"

\* _enter_position(side, bar), with the stop distance and the sized quantity
\* of lines 349-375 on the side.
CallEnterPosition ==
    /\ NoCallYet
    /\ \E lower \in CallBands, upper \in CallBands, ip \in BOOLEAN, side \in {BUY, SELL},
          close \in CallCloses, bal \in CallBalances, pct \in CallRiskPcts :
          LET st == SelfWithBands(lower, upper, ip)
              bar == Bar(close, close, close, 2, 1)
              distance == PriceDistance(st, side, close)
          IN  step' = [ op |-> "enter_position", st |-> st, side |-> side, bar |-> bar,
                        balance |-> bal, pct |-> pct, distance |-> distance,
                        sized |-> IF bal = NoBalance \/ distance = 0 THEN 0
                                  ELSE PositionQty(RiskAmount(bal, pct), distance),
                        result |-> EnterPosition(Idle(st), side, bar, bal) ]
    /\ UNCHANGED <<self, vwap_15min, vwap_4h, net_position, venue_pos_id,
                   next_pos_id, inflight, pending, hist>>

\* Closes, volumes and VWAP values of the bars a call is made with.
CallPrices == {10, 20, 30}
CallVolumes == {0, 1, 2}
\* volumes_15min of an object that has processed fast bars: short histories
\* and a full one.
CallHistories ==
    { <<0>>, <<1>>, <<2>>, <<0, 2>>, <<2, 2>>,
      [i \in 1..VolumesMaxLen |-> IF i = 1 THEN 20 ELSE 0] }
CallBalance == 60000

\* The bars an object has stored when it has seen these volumes at this close.
PrevBars(volumes, close) ==
    [i \in 1..Len(volumes) |-> Bar(close, close, close, volumes[i], i)]

Ready(value) == [initialized |-> TRUE, value |-> value]

\* _process_15min_bar on a FLAT object that has evaluated bars before:
\* prev_close is the previous bar's close, last_vwap the fast VWAP stored by
\* the previous bar, vwap_two_prior the one stored by the bar before it.
CallEntryBar ==
    /\ NoCallYet
    /\ \E prev_close \in {10, 30}, last_vwap \in {10, 30}, vwap_two_prior \in {10, 30},
          history \in CallHistories, close \in CallPrices, volume \in CallVolumes,
          v15 \in CallPrices, v4h \in CallPrices :
          LET st == [InitSelf EXCEPT !.bars_15min = PrevBars(history, prev_close),
                                     !.volumes_15min = history,
                                     !.last_15min_price = prev_close,
                                     !.last_15min_vwap = last_vwap]
              bar == Bar(close, close, close, volume, Len(history) + 1)
              s1 == StoreBar(st, bar)
          IN  step' = [ op |-> "entry_bar", st |-> st, bar |-> bar,
                        vwap_two_prior |-> vwap_two_prior, v15 |-> v15, v4h |-> v4h,
                        cross_above |-> CrossAbove(s1, v15),
                        cross_below |-> CrossBelow(s1, v15),
                        volume_check |-> VolumeCheck(s1.volumes_15min, bar.volume),
                        result |-> Process15minBar(st, bar, Ready(v15), Ready(v4h),
                                                   0, CallBalance) ]
    /\ UNCHANGED <<self, vwap_15min, vwap_4h, net_position, venue_pos_id,
                   next_pos_id, inflight, pending, hist>>

\* Closes of the bars an object in a position has stored: one bar (the bands
\* are still 0.0), one short of the band period (the call computes them) or
\* a full period (the call drops the oldest from the window).
CallCloseHistories ==
    { <<c>> : c \in {10, 30} }
        \cup { <<a, b, c>> : a \in {10, 30}, b \in {10, 30}, c \in {10, 30} }
        \cup { <<a, b, c, d>> : a \in {10, 30}, b \in {10, 30}, c \in {10, 30}, d \in {10, 30} }
\* The venue's net position at the call.
CallNets == {-2, -1, 0, 1, 2}
\* Hours from the entry to the bar of the call.
CallElapsed == {time_exit_hours, time_exit_hours + 1}

\* Stored bars with these closes, each with a high 6 above and a low 3 below.
BarsOfCloses(closes) ==
    [i \in 1..Len(closes) |-> Bar(closes[i] + 6, closes[i] - 3, closes[i], 2, i)]

\* _process_15min_bar on an object in a position that has evaluated bars before.
CallExitBar ==
    /\ NoCallYet
    /\ \E side \in {BUY, SELL}, closes \in CallCloseHistories, close \in CallPrices,
          v15 \in CallPrices, net \in CallNets, elapsed \in CallElapsed :
          LET ts == Len(closes) + 1
              st == [InitSelf EXCEPT !.bars_15min = BarsOfCloses(closes),
                                     !.volumes_15min = [i \in 1..Len(closes) |-> 2],
                                     !.last_15min_price = closes[Len(closes)],
                                     !.last_15min_vwap = 10,
                                     !.in_position = TRUE,
                                     !.position_side = side,
                                     !.entry_time = ts - elapsed,
                                     !.trades_total = 1]
              bar == Bar(close, close, close, 2, ts)
          IN  step' = [ op |-> "exit_bar", st |-> st, bar |-> bar, v15 |-> v15,
                        net |-> net, elapsed |-> elapsed,
                        result |-> Process15minBar(st, bar, Ready(v15), Ready(20),
                                                   net, CallBalance) ]
    /\ UNCHANGED <<self, vwap_15min, vwap_4h, net_position, venue_pos_id,
                   next_pos_id, inflight, pending, hist>>

\* Position identifiers an event may carry or an object may have recorded.
CallIds == {1, 2}

\* Objects a position event may find: FLAT or in a position, with or without
\* a recorded identifier, with some trades counted.
CallTracked ==
    { [InitSelf EXCEPT !.in_position = ip,
                       !.position_side = IF ip THEN side ELSE NoSide,
                       !.entry_time = IF ip THEN 1 ELSE NoTime,
                       !.current_position_id = id,
                       !.trades_total = won + 1,
                       !.trades_won = won] :
        ip \in BOOLEAN, side \in {BUY, SELL}, id \in CallIds \cup {NoId}, won \in {0, 1} }

\* on_position_opened(event) or on_position_closed(event), by the event's type.
CallPositionEvent ==
    /\ NoCallYet
    /\ \E st \in CallTracked, inst \in {ThisInstrument, OtherInstrument},
          id \in CallIds, pnl \in Pnls, opened \in BOOLEAN :
          LET event == IF opened THEN PositionOpened(inst, id)
                       ELSE PositionClosed(inst, id, pnl)
          IN  step' = [ op |-> "position_event", st |-> st, event |-> event,
                        result |-> IF opened THEN OnPositionOpened(Idle(st), event)
                                   ELSE OnPositionClosed(Idle(st), event) ]
    /\ UNCHANGED <<self, vwap_15min, vwap_4h, net_position, venue_pos_id,
                   next_pos_id, inflight, pending, hist>>

NextCalls == CallEnterPosition \/ CallEntryBar \/ CallExitBar \/ CallPositionEvent

SpecCalls == Init /\ [][NextCalls]_vars

----------------------------------------------------------------------------
\* Vocabulary of the properties: what the last callback was and did.

NumOut(kind) == Cardinality({i \in 1..Len(step.out) : step.out[i].kind = kind})

Emitted(kind, cause) ==
    \E i \in 1..Len(step.out) : step.out[i].kind = kind /\ step.out[i].cause = cause

\* The fast bar just processed found both indicators initialized.
BothInitialized == vwap_15min.initialized /\ vwap_4h.initialized

\* The fast bar just processed ran the signal evaluation (lines 204-309).
Evaluated == step.op = "fast_bar" /\ BothInitialized /\ step.pre.last_15min_vwap # 0

\* The position fields and the counters, before and after the last callback.
Position(r) == <<r.in_position, r.position_side, r.entry_time, r.current_position_id>>
Counters(r) == <<r.trades_total, r.trades_won, r.trades_lost>>

\* The last callback was on_position_closed for this instrument with the
\* recorded position identifier.
MatchingClose ==
    /\ step.op = "position_closed"
    /\ step.event.instrument_id = ThisInstrument
    /\ step.event.position_id = step.pre.current_position_id

Cleared ==
    /\ ~self.in_position
    /\ self.position_side = NoSide
    /\ self.entry_time = NoTime
    /\ self.current_position_id = NoId

----------------------------------------------------------------------------
\* C1 (as stated): once an entry order intent has been emitted, no further
\* entry order intent is emitted until a position-closed confirmation has
\* reset the phase to FLAT.
C1_OneEntryUntilCloseConfirmed == hist.since_close <= 1

\* C1 (amended): once an entry order intent has been emitted, no further entry
\* order intent is emitted until the phase has been reset to FLAT, by a
\* position-closed confirmation or by the defensive reset of an exit attempt
\* that finds a net position of zero; and an entry is emitted only by a fast
\* bar and leaves the engine in a position.
C1_OneEntryUntilFlat ==
    /\ hist.since_flat <= 1
    /\ NumOut("entry") <= 1
    /\ NumOut("entry") = 1 => step.op = "fast_bar" /\ self.in_position

\* A second entry is emitted after the phase went back to FLAT.
C1_Witness ==
    /\ step.op = "fast_bar"
    /\ NumOut("entry") = 1
    /\ self.trades_total = 2
    /\ hist.since_flat = 1

\* C2: a fast bar processed while the fast or the slow indicator is not
\* initialized emits no order intent and only extends the bar and volume
\* history: position fields, counters, bands and the stored fast VWAP keep
\* their values.  (The bar's close is also stored as last_15min_price, which
\* every later bar overwrites before reading it.)
C2_NoOrderBeforeInitialized ==
    (step.op = "fast_bar" /\ ~BothInitialized) =>
        /\ step.out = <<>>
        /\ step.attempt = NoSide
        /\ Tracking(self) = step.pre
        /\ self.bars_15min[Len(self.bars_15min)] = step.bar
        /\ self.volumes_15min[Len(self.volumes_15min)] = step.bar.volume

\* A traded fast bar arrives after an earlier one while the slow indicator
\* has not reported yet.
C2_Witness ==
    /\ step.op = "fast_bar"
    /\ vwap_15min.initialized
    /\ ~vwap_4h.initialized
    /\ Len(self.bars_15min) >= 2
    /\ step.bar.volume > 0

\* C3: while the bands have not been computed (fewer than vwap_period fast
\* bars stored, both bands still zero) no take-profit exit is triggered.
C3_NoTakeProfitOnZeroBands ==
    (/\ step.op = "fast_bar"
     /\ ~BandsComputed(self)
     /\ self.upper_band_15min = 0
     /\ self.lower_band_15min = 0) => ~Emitted("exit", "take_profit")

\* C4: processing one fast bar emits at most one exit order intent.
C4_AtMostOneExitPerBar == NumOut("exit") <= 1

NetOnRecordedSide ==
    \/ step.pre.position_side = BUY /\ step.net > 0
    \/ step.pre.position_side = SELL /\ step.net < 0

C6_CountersChangeOnlyOnClose ==
    Counters(self) # Counters(step.pre) => MatchingClose

\* C6 (amended): no counter ever decreases; won and lost change only while a
\* position-closed event with the recorded identifier is processed; total
\* changes only when a fast bar submits an entry order.
C6_CountersMonotone ==
    /\ self.trades_total >= step.pre.trades_total
    /\ self.trades_won >= step.pre.trades_won
    /\ self.trades_lost >= step.pre.trades_lost
    /\ (self.trades_won # step.pre.trades_won \/ self.trades_lost # step.pre.trades_lost)
          => MatchingClose
    /\ self.trades_total # step.pre.trades_total
          => step.op = "fast_bar" /\ NumOut("entry") = 1

\* A confirmed close has counted a trade.
C6_Witness ==
    /\ MatchingClose
    /\ self.trades_won + self.trades_lost = step.pre.trades_won + step.pre.trades_lost + 1
    /\ self.trades_total = step.pre.trades_total

\* C7: every exit order intent is submitted reduce-only.
C7_ExitsAreReduceOnly ==
    \A i \in 1..Len(step.out) : step.out[i].kind = "exit" => step.out[i].reduce_only

\* C8: a bar that emits an exit order intent leaves phase, side, entry time,
\* position identifier and all counters as they were.
C8_ExitKeepsState ==
    NumOut("exit") >= 1 =>
        /\ step.op = "fast_bar"
        /\ Position(self) = Position(step.pre)
        /\ Counters(self) = Counters(step.pre)
        /\ self.in_position

\* An exit order has been emitted for a position the venue holds.
C8_Witness ==
    /\ NumOut("exit") >= 1
    /\ step.net # 0
    /\ step.pre.current_position_id # NoId

\* C9: a position-closed event for this instrument with the recorded
\* identifier leaves the engine FLAT with side, entry time and identifier
\* cleared.
C9_MatchingCloseClears == MatchingClose => Cleared

\* The close of the position the engine was in has been confirmed.
C9_Witness ==
    /\ MatchingClose
    /\ step.pre.in_position
    /\ step.pre.current_position_id # NoId

\* C10: a matching close with realized P&L >= 0 adds exactly one to won and
\* leaves lost; with realized P&L < 0 it adds exactly one to lost and leaves won.
C10_WinLoss ==
    MatchingClose =>
        IF step.event.realized_pnl >= 0
        THEN /\ self.trades_won = step.pre.trades_won + 1
             /\ self.trades_lost = step.pre.trades_lost
        ELSE /\ self.trades_lost = step.pre.trades_lost + 1
             /\ self.trades_won = step.pre.trades_won

\* A position closed at a realized P&L of exactly zero is counted as won.
C10_Witness ==
    /\ MatchingClose
    /\ step.event.realized_pnl = 0
    /\ self.trades_won = step.pre.trades_won + 1

----------------------------------------------------------------------------
\* Vocabulary of the sizing properties.

\* q is an integer nearest to a / b (b > 0).
Nearest(q, a, b) == 2 * Abs(q * b - a) <= b

\* q is risk / distance at the quantity precision, raised to the minimum lot
\* when risk / distance is below it.
IsSized(q, risk, distance) ==
    IF risk < min_quantity * distance THEN q = min_quantity
    ELSE Nearest(q, risk, distance)

\* C11: the quantity of every emitted entry order intent equals the quantity
\* computed by the risk sizer for that entry (risk amount divided by stop
\* distance, raised to the minimum lot when below it), and the order is on
\* the signal side.
C11_EntryQuantityIsSized ==
    \A i \in 1..Len(step.out) :
        step.out[i].kind = "entry" =>
            LET stop == IF step.attempt = BUY THEN self.lower_band_15min
                        ELSE self.upper_band_15min
            IN  /\ step.out[i].side = step.attempt
                /\ IsSized(step.out[i].quantity,
                           (step.balance * risk_per_trade_pct) \div 100,
                           Abs(step.bar.close - stop))

\* The stop band of the entry call recorded in step.
CallStop ==
    IF step.side = BUY THEN step.st.lower_band_15min ELSE step.st.upper_band_15min

\* C12: the stop distance of an entry is measured to the lower band for LONG
\* and to the upper band for SHORT; for an available balance and a distance
\* above zero the sized quantity is balance x risk fraction / distance, raised
\* to the minimum lot when below it.  size(1000, 0.1, 10, 1) = 10 and
\* size(1000, 0.1, 1000, 1) = 1.
C12_RiskSizing ==
    step.op = "enter_position" /\ step.balance # NoBalance =>
        /\ step.distance = Abs(step.bar.close - CallStop)
        /\ step.distance > 0 =>
              IsSized(step.sized, (step.balance * step.pct) \div 100, step.distance)
        /\ step.balance = 1000 /\ step.pct = 10 /\ step.distance = 10 => step.sized = 10
        /\ step.balance = 1000 /\ step.pct = 10 /\ step.distance = 1000 => step.sized = 1

C12_Witness ==
    /\ step.op = "enter_position"
    /\ step.side = SELL
    /\ step.balance = 1000 /\ step.pct = 10 /\ step.distance = 1000
    /\ step.sized = min_quantity

\* C13: an entry attempted with a stop distance |price - stop band| <= 0 is
\* skipped: no order intent is emitted and the object (phase, side, entry
\* time, position identifier, trade counters) is left as it was.
C13_NoEntryOnZeroDistance ==
    step.op = "enter_position" /\ Abs(step.bar.close - CallStop) <= 0 =>
        /\ step.result.out = <<>>
        /\ ~step.result.raised
        /\ step.result.st = step.st

C13_Witness ==
    /\ step.op = "enter_position"
    /\ ~step.st.in_position
    /\ step.balance # NoBalance
    /\ step.bar.close = CallStop
    /\ step.result.attempt = step.side
    /\ step.result.out = <<>>

\* C14: an entry attempted while the account balance is unavailable is
\* skipped: no order intent is emitted, nothing is raised, the engine stays
\* FLAT with side, entry time and counters as they were, and the bar is
\* processed to its end, so that later bars are evaluated and can enter.
C14_NoEntryWithoutBalance ==
    step.op = "fast_bar" /\ step.attempt # NoSide /\ step.balance = NoBalance =>
        /\ NumOut("entry") = 0
        /\ ~step.raised
        /\ ~self.in_position /\ self.position_side = NoSide /\ self.entry_time = NoTime
        /\ self.current_position_id =
              IF NumOut("reset") = 0 THEN step.pre.current_position_id ELSE NoId
        /\ NumOut("reset") = 0 => Position(self) = Position(step.pre)
        /\ Counters(self) = Counters(step.pre)
        /\ self.last_15min_vwap = vwap_15min.value

\* An entry order intent is emitted on a bar after one whose entry was skipped.
C14_Witness ==
    /\ hist.skipped
    /\ step.op = "fast_bar"
    /\ step.balance # NoBalance
    /\ NumOut("entry") = 1

----------------------------------------------------------------------------
\* Vocabulary of the entry-bar properties (step.op = "entry_bar").

\* The volume history with the current bar's volume: the last VolumesMaxLen of
\* the volumes seen, the current one included.
WindowWithCurrent ==
    LET all == Append(step.st.volumes_15min, step.bar.volume)
    IN  IF Len(all) > VolumesMaxLen THEN LastN(all, VolumesMaxLen) ELSE all

\* current volume / average of window >= entry_volume_threshold, and the
\* average is not zero.
RatioPasses(window) ==
    /\ SumSeq(window) > 0
    /\ entry_volume_threshold_den * step.bar.volume * Len(window)
          >= entry_volume_threshold_num * SumSeq(window)

C17_RatioExcludesCurrent ==
    step.op = "entry_bar" =>
        (step.volume_check <=> RatioPasses(step.st.volumes_15min))

\* C17 (amended): the volume filter passes iff the current bar's volume
\* divided by the average of the volume history with the current bar (the
\* current volume and those of up to the 19 preceding fast bars) is >=
\* entry_volume_threshold; an entry is attempted only when it passes.
C17_RatioIncludesCurrent ==
    step.op = "entry_bar" =>
        /\ step.volume_check <=> RatioPasses(WindowWithCurrent)
        /\ step.result.attempt # NoSide => RatioPasses(WindowWithCurrent)

\* The bar's volume is above the threshold against the preceding bars alone,
\* trend and cross are there, and no entry is attempted.
C17_Witness ==
    /\ step.op = "entry_bar"
    /\ RatioPasses(step.st.volumes_15min)
    /\ ~step.volume_check
    /\ step.cross_above
    /\ step.bar.close > step.v4h
    /\ step.result.attempt = NoSide

\* C18: on a fast bar a LONG entry is attempted only if the bar's close is
\* strictly above the current slow VWAP and the volume ratio is >= the
\* threshold, a SHORT entry only if the close is strictly below the slow VWAP
\* and the volume ratio is >= the threshold; with the close equal to the slow
\* VWAP no entry is attempted; a bar emits at most one entry order intent, on
\* the side attempted.
C18_EntryGatedByTrendAndVolume ==
    step.op = "entry_bar" =>
        /\ step.result.attempt = BUY =>
              step.bar.close > step.v4h /\ RatioPasses(WindowWithCurrent)
        /\ step.result.attempt = SELL =>
              step.bar.close < step.v4h /\ RatioPasses(WindowWithCurrent)
        /\ step.bar.close = step.v4h => step.result.attempt = NoSide
        /\ Len(step.result.out) <= 1
        /\ \A i \in 1..Len(step.result.out) :
              /\ step.result.out[i].kind = "entry"
              /\ step.result.out[i].side = step.result.attempt

\* Cross and volume are there, the close sits on the slow VWAP: no entry.
C18_Witness ==
    /\ step.op = "entry_bar"
    /\ step.bar.close = step.v4h
    /\ step.cross_above
    /\ step.volume_check
    /\ step.result.attempt = NoSide
    /\ step.result.out = <<>>

----------------------------------------------------------------------------
\* Vocabulary of the exit-bar properties (step.op = "exit_bar").

\* The call attempted an exit: it submitted an exit order, reset the tracking
\* fields for want of a position, or failed building the order.
ExitAttempted == step.result.out # <<>> \/ step.result.raised

\* C19: on an evaluated fast bar received while LONG with the time limit not
\* reached, an exit is attempted iff price >= upper band or price < fast
\* VWAP; while SHORT, iff price <= lower band or price > fast VWAP.  With the
\* price strictly between the fast VWAP and the take-profit band, or on the
\* VWAP, no exit is attempted.
C19_PriceExits ==
    step.op = "exit_bar" /\ step.elapsed <= time_exit_hours =>
        LET price == step.bar.close
            upper == step.result.st.upper_band_15min
            lower == step.result.st.lower_band_15min
        IN  /\ step.st.position_side = BUY =>
                  (ExitAttempted <=> price >= upper \/ price < step.v15)
            /\ step.st.position_side = SELL =>
                  (ExitAttempted <=> price <= lower \/ price > step.v15)
            /\ ~ExitAttempted => Position(step.result.st) = Position(step.st)

\* LONG with the price strictly between the fast VWAP and the upper band.
C19_Witness ==
    /\ step.op = "exit_bar"
    /\ step.elapsed <= time_exit_hours
    /\ step.st.position_side = BUY
    /\ step.bar.close > step.v15
    /\ step.bar.close < step.result.st.upper_band_15min
    /\ ~ExitAttempted

----------------------------------------------------------------------------
\* C20: the first fast bar processed after both indicators have become
\* initialized emits no order intent and attempts nothing, whatever its price
\* and volume: there is no stored fast VWAP to compare against.  It stores
\* its fast VWAP, and every later fast bar is evaluated.
C20_FirstReadyBarEmitsNothing ==
    /\ step.op = "fast_bar" /\ hist.ready_bars = 1 =>
          /\ step.pre.last_15min_vwap = 0
          /\ step.out = <<>>
          /\ step.attempt = NoSide
          /\ ~step.raised
          /\ Position(self) = Position(step.pre)
          /\ Counters(self) = Counters(step.pre)
          /\ self.last_15min_vwap = vwap_15min.value
    /\ step.op = "fast_bar" /\ hist.ready_bars >= 2 => Evaluated

\* The first ready bar with downtrend, price below the fast VWAP and volume
\* above the threshold: nothing is emitted.
C20_Witness ==
    /\ step.op = "fast_bar"
    /\ hist.ready_bars = 1
    /\ step.bar.close < vwap_4h.value
    /\ step.bar.close < vwap_15min.value
    /\ VolumeCheck(self.volumes_15min, step.bar.volume)
    /\ step.out = <<>>

----------------------------------------------------------------------------
\* The bands have been computed: the last fast bar found both indicators
\* ready (they stay ready) with at least vwap_period_15min bars stored.
BandsEverComputed ==
    hist.ready_bars >= 1 /\ Len(self.bars_15min) >= vwap_period_15min

\* C21: once the bands have been computed, upper band >= current fast VWAP >=
\* lower band, hence upper band >= lower band; before the first computation
\* both bands keep their initial value zero.
C21_BandInvariant ==
    IF BandsEverComputed
    THEN /\ self.upper_band_15min >= vwap_15min.value
         /\ vwap_15min.value >= self.lower_band_15min
         /\ self.upper_band_15min >= self.lower_band_15min
    ELSE self.upper_band_15min = 0 /\ self.lower_band_15min = 0

C21_Witness ==
    /\ BandsEverComputed
    /\ self.upper_band_15min > vwap_15min.value
    /\ vwap_15min.value > self.lower_band_15min

----------------------------------------------------------------------------
\* The phase of the engine: FLAT, or the side of the position it tracks.
FLAT == "FLAT"
Phase(r) == IF r.in_position THEN r.position_side ELSE FLAT

\* The phases the engine may be in after emitting out from one of phases,
\* when the phase changes only by FLAT -> side on an entry order and by
\* side -> FLAT on an exit attempt or a close confirmation.
RECURSIVE PhasesAfter(_, _)
PhasesAfter(phases, out) ==
    IF out = <<>> THEN phases
    ELSE LET e == Head(out)
             next == IF e.kind = "entry"
                     THEN IF FLAT \in phases THEN {e.side} ELSE {}
                     ELSE IF e.kind \in {"reset", "close_confirmed"} THEN {FLAT}
                     ELSE IF e.kind = "exit" THEN phases \cup {FLAT}
                     ELSE phases
         IN  PhasesAfter(next, Tail(out))

\* C22: the phase starts at FLAT and changes only by FLAT -> LONG and
\* FLAT -> SHORT (entry order submitted) and by LONG -> FLAT and SHORT -> FLAT;
\* no entry is made from LONG or SHORT, and every change happens while an
\* entry signal, an exit attempt or a position-closed confirmation is being
\* processed.
C22_PhaseSteps ==
    /\ step.op = "init" => Phase(self) = FLAT
    /\ Phase(self) \in {FLAT, BUY, SELL}
    /\ Phase(self) \in PhasesAfter({Phase(step.pre)}, step.out)
    /\ step.op \notin {"fast_bar", "position_closed"} => Phase(self) = Phase(step.pre)

\* A bar that arrives in SHORT and ends in LONG: the exit attempt resets to
\* FLAT and the entry signal of the same bar enters.
C22_Witness ==
    /\ Phase(step.pre) = SELL
    /\ Phase(self) = BUY
    /\ Len(step.out) = 2
    /\ step.out[1].kind = "reset"
    /\ step.out[2].kind = "entry"

----------------------------------------------------------------------------
\* C23: the recorded position identifier is set only by a position-opened
\* event for this instrument: it is empty initially, submitting an entry
\* order does not set it, and a non-empty identifier is the one of the most
\* recent position-opened event for this instrument since the last reset.
C23_IdentifierFromOpenedEvent ==
    /\ step.op = "init" => self.current_position_id = NoId
    /\ self.current_position_id # NoId =>
          self.current_position_id = hist.last_opened
    /\ self.current_position_id # step.pre.current_position_id =>
          \/ self.current_position_id = NoId
          \/ /\ step.op = "position_opened"
             /\ step.event.instrument_id = ThisInstrument
             /\ self.current_position_id = step.event.position_id
    /\ NumOut("entry") > 0 =>
          self.current_position_id \in {NoId, step.pre.current_position_id}

\* An entry order has been filled and its position-opened event recorded.
C23_Witness ==
    /\ step.op = "position_opened"
    /\ step.pre.current_position_id = NoId
    /\ step.pre.in_position
    /\ self.current_position_id = step.event.position_id
    /\ self.current_position_id # NoId

----------------------------------------------------------------------------
\* C24: every emitted exit order intent is on the side opposite to the
\* recorded position side (SELL for LONG, BUY for SHORT) and has a strictly
\* positive quantity equal to the magnitude of the net position the venue
\* reports at the time of the exit.
C24_ExitOrderSideAndQuantity ==
    step.op = "exit_bar" =>
        \A i \in 1..Len(step.result.out) :
            step.result.out[i].kind = "exit" =>
                /\ step.st.position_side = BUY => step.result.out[i].side = SELL
                /\ step.st.position_side = SELL => step.result.out[i].side = BUY
                /\ step.result.out[i].quantity > 0
                /\ step.result.out[i].quantity = Abs(step.net)

\* A SHORT position of two lots is bought back.
C24_Witness ==
    /\ step.op = "exit_bar"
    /\ step.st.position_side = SELL
    /\ step.net = -2
    /\ Len(step.result.out) >= 1
    /\ step.result.out[1].kind = "exit"
    /\ step.result.out[1].side = BUY
    /\ step.result.out[1].quantity = 2

----------------------------------------------------------------------------
\* C25: when the average of the volume history is 0 the volume ratio is 0:
\* nothing is raised, the volume filter fails and the bar emits no entry
\* order intent, whatever trend and cross are.
C25_ZeroAverageVolume ==
    step.op = "entry_bar" /\ SumSeq(WindowWithCurrent) = 0 =>
        /\ ~step.volume_check
        /\ ~step.result.raised
        /\ step.result.attempt = NoSide
        /\ step.result.out = <<>>

\* Uptrend and cross-above on a bar whose volume history is all zero.
C25_Witness ==
    /\ step.op = "entry_bar"
    /\ SumSeq(WindowWithCurrent) = 0
    /\ step.bar.close > step.v4h
    /\ step.cross_above
    /\ step.result.out = <<>>

----------------------------------------------------------------------------
\* Vocabulary of the band properties (step.op = "exit_bar").

\* The typical prices (high + low + close) / 3 of the most recent
\* vwap_period_15min bars, the bar of the call included.
BandWindow ==
    LET all == Append(step.st.bars_15min, step.bar)
        first == Len(all) - vwap_period_15min
    IN  [i \in 1..vwap_period_15min |->
            (all[first + i].high + all[first + i].low + all[first + i].close) \div 3]

\* N^2 times the population variance of the window: N * sum x^2 - (sum x)^2.
BandSpread == vwap_period_15min * SumSq(BandWindow) - SumSeq(BandWindow) * SumSeq(BandWindow)

\* The bands are current fast VWAP -/+ multiplier * h.
BandsAre(h) ==
    /\ step.result.st.upper_band_15min = step.v15 + std_dev_multiplier * h
    /\ step.result.st.lower_band_15min = step.v15 - std_dev_multiplier * h

WindowFull == Len(step.st.bars_15min) + 1 >= vwap_period_15min

\* C26 (as stated): the half-width is the multiplier times the sample standard
\* deviation (divisor N - 1) of the typical prices of the window, in whole
\* ticks: h^2 <= spread / (N (N - 1)) < (h + 1)^2.
C26_SampleStdDev ==
    step.op = "exit_bar" /\ WindowFull =>
        \E h \in 0..40 :
            /\ BandsAre(h)
            /\ h * h * vwap_period_15min * (vwap_period_15min - 1) <= BandSpread
            /\ BandSpread < (h + 1) * (h + 1) * vwap_period_15min * (vwap_period_15min - 1)

\* C26 (amended): the half-width is the multiplier times the population
\* standard deviation (divisor N) of the typical prices (high+low+close)/3 of
\* exactly the most recent vwap_period fast bars, in whole ticks
\* (h^2 <= spread / N^2 < (h + 1)^2), centred on the current fast VWAP; older
\* bars do not enter, and with fewer bars the bands are left alone.
C26_PopulationStdDev ==
    step.op = "exit_bar" =>
        IF WindowFull
        THEN \E h \in 0..40 :
                /\ BandsAre(h)
                /\ h * h * vwap_period_15min * vwap_period_15min <= BandSpread
                /\ BandSpread < (h + 1) * (h + 1) * vwap_period_15min * vwap_period_15min
        ELSE /\ step.result.st.upper_band_15min = step.st.upper_band_15min
             /\ step.result.st.lower_band_15min = step.st.lower_band_15min

\* More bars stored than the window holds, the oldest unlike the rest, and a
\* band of non-zero width.
C26_Witness ==
    /\ step.op = "exit_bar"
    /\ Len(step.st.bars_15min) = vwap_period_15min
    /\ step.st.bars_15min[1].close # step.st.bars_15min[2].close
    /\ step.result.st.upper_band_15min > step.v15

----------------------------------------------------------------------------
\* C27: right after an entry order intent is emitted, before any fill
\* confirmation, the phase is the order's side, the entry time is the bar's
\* event time, the position identifier is still empty and the total-trade
\* counter has grown by exactly one; the total-trade counter always equals the
\* number of entry order intents emitted so far.
C27_OptimisticEntry ==
    /\ self.trades_total = hist.entries
    /\ \A i \in 1..Len(step.out) :
          step.out[i].kind = "entry" =>
              /\ Phase(self) = step.out[i].side
              /\ self.entry_time = step.bar.ts_event
              /\ self.current_position_id = NoId
              /\ self.trades_total = step.pre.trades_total + 1

----------------------------------------------------------------------------
\* C28: whenever the venue holds a non-zero net position opened by an entry
\* order of the engine, the engine's phase is LONG or SHORT, never FLAT,
\* whatever the interleaving of fast bars with the fill and close
\* confirmations.
C28_NoDesynchronisation ==
    net_position # 0 /\ hist.opened_by_entry => Phase(self) # FLAT

\* The exit order intents among the orders in flight.
ExitsInFlight == Cardinality({i \in 1..Len(inflight) : inflight[i].kind = "exit"})

\* C29: while an exit order is in flight, later fast bars emit no further
\* exit order intent: a fast bar that emits exit order intents finds no
\* earlier one in flight.
C29_NoExitWhileExitInFlight ==
    step.op = "fast_bar" /\ NumOut("exit") > 0 => ExitsInFlight = NumOut("exit")

\* C30: an entry order intent is emitted on a fast bar only if the phase was
\* FLAT when the bar arrived; no bar both runs an exit attempt (the defensive
\* reset included) and submits an entry.
C30_EntryOnlyFromFlat ==
    NumOut("entry") > 0 =>
        /\ Phase(step.pre) = FLAT
        /\ NumOut("exit") = 0
        /\ NumOut("reset") = 0

----------------------------------------------------------------------------
\* C31: no entry order intent is emitted before the bands have been computed
\* for the first time: a fast bar that emits an entry has at least
\* vwap_period_15min fast bars stored, and the stop price its entry is sized
\* against is a computed band, not the initial zero.
C31_NoEntryBeforeBands ==
    step.op = "fast_bar" =>
        \A i \in 1..Len(step.out) :
            step.out[i].kind = "entry" =>
                /\ BandsEverComputed
                /\ StopPrice(self, step.out[i].side) # 0

----------------------------------------------------------------------------
----------------------------------------------------------------------------
\* C34: whenever the phase is FLAT the recorded position identifier is
\* empty, in whatever order the position-opened events, the exit attempts
\* and the close confirmations arrive.
C34_FlatHasNoIdentifier ==
    Phase(self) = FLAT => self.current_position_id = NoId

----------------------------------------------------------------------------
\* The three tracking fields of a record agree: all set or all cleared.
FlagsAgree(r) ==
    /\ r.in_position <=> r.position_side \in {BUY, SELL}
    /\ r.in_position <=> r.entry_time # NoTime
    /\ ~r.in_position => r.position_side = NoSide

\* C35: between callbacks in_position is true iff position_side is set iff
\* entry_time is set; an entry sets the three together, and a close
\* confirmation and the defensive reset clear the three together.
C35_TrackingFlagsAgree ==
    /\ FlagsAgree(self)
    /\ NumOut("entry") > 0 => self.in_position
    /\ NumOut("close_confirmed") > 0 => ~self.in_position
    /\ NumOut("reset") > 0 /\ NumOut("entry") = 0 => ~self.in_position

\* A defensive reset has just cleared a position's three fields.
C35_Witness ==
    /\ step.op = "fast_bar"
    /\ step.pre.in_position
    /\ step.pre.entry_time # NoTime
    /\ NumOut("reset") = 1
    /\ NumOut("entry") = 0
    /\ ~self.in_position
    /\ self.position_side = NoSide
    /\ self.entry_time = NoTime

----------------------------------------------------------------------------
----------------------------------------------------------------------------
\* The event of the call does not concern the tracked position: it is for
\* another instrument, or it closes a position of this instrument whose
\* identifier is not the recorded one.
Unconcerned ==
    \/ step.event.instrument_id # ThisInstrument
    \/ /\ step.event.type = "closed"
       /\ step.event.position_id # step.st.current_position_id

\* C37: a position-opened or position-closed event for another instrument,
\* and a position-closed event for this instrument whose identifier differs
\* from the recorded one, leave phase, side, entry time, position identifier
\* and all counters unchanged.
C37_UnconcernedEventsFrame ==
    step.op = "position_event" /\ Unconcerned =>
        /\ Position(step.result.st) = Position(step.st)
        /\ Counters(step.result.st) = Counters(step.st)
        /\ step.result.st = step.st
        /\ step.result.out = <<>>

\* A close of this instrument with another identifier than the recorded one
\* has reached an object in a position.
C37_Witness ==
    /\ step.op = "position_event"
    /\ step.event.type = "closed"
    /\ step.event.instrument_id = ThisInstrument
    /\ step.st.in_position
    /\ step.st.current_position_id = 1
    /\ step.event.position_id = 2
    /\ step.event.realized_pnl < 0
    /\ step.result.st.trades_lost = 0

----------------------------------------------------------------------------
\* The fast bar just processed found an entry that was never filled (the
\* phase LONG or SHORT, nothing held at the venue, no identifier recorded)
\* and came after the time limit.
UnfilledEntryPastLimit ==
    /\ step.op = "fast_bar"
    /\ Phase(step.pre) # FLAT
    /\ step.net = 0
    /\ step.pre.current_position_id = NoId
    /\ TimeExitDue(step.bar.ts_event - step.pre.entry_time)

====
